---- MODULE Spec2Model ----
(***************************************************************************)
(* Sound (src/ears/sound.rs): one OpenAL source handle bound to one shared *)
(* SoundData.  Every method checks the context oracle, forwards one call   *)
(* to the OpenAL backend and returns.  The model keeps the backend's       *)
(* source table and pending error flag, the live Sound values, and a       *)
(* record of what the last operation did (its backend calls, diagnostics   *)
(* and returned value).                                                    *)
(***************************************************************************)
EXTENDS Integers, Sequences, FiniteSets, TLC

\* ------------------------------------------------------------- bounds
MaxSounds == 2
MaxSources == 2
MaxDatas == 1
MaxSets == 1
MaxFaults == 1

\* ---------------------------------------------------------- constants
AL_INITIAL == 4113
AL_PLAYING == 4114
AL_PAUSED == 4115
AL_STOPPED == 4116
ALC_TRUE == 1
ALC_FALSE == 0
\* f32 +infinity, the default AL_MAX_DISTANCE
F32_INF == 1000

SoundIds == 1..MaxSounds
Handles == 1..MaxSources
\* SoundData values the caller built beforehand and may share between Sounds
SharedDatas == 1..MaxDatas
NoSound == [al_source |-> 0, sound_data |-> 0]
NoSource == [AL_SOURCE_STATE |-> 0]

\* the f32 arguments a caller passes; negative values are outside every
\* parameter's legal range
FloatArgs == {-1, 2}
VecArgs == {<<1, 0, 2>>}
ZeroVec == <<0, 0, 0>>

VARIABLES
    ctxValid,    \* the answer of OpenAlData::check_al_context()
    faults,      \* how many calls on valid names the backend may still refuse
    alSources,   \* backend: source name -> its attributes, or NoSource
    alError,     \* backend: an error is pending (alGetError not yet called)
    sounds,      \* the live Sound values: al_source and sound_data
    panicked,    \* the task hit unreachable!() and is unwinding
    nsets,       \* number of setter calls made so far
    last         \* what the last operation was and did

vars == <<ctxValid, faults, alSources, alError, sounds, panicked, nsets, last>>

\* ------------------------------------------------------------ backend
\* A source as alGenSources creates it.
DefaultSource ==
    [AL_SOURCE_STATE |-> AL_INITIAL, AL_BUFFER |-> 0,
     AL_GAIN |-> 1, AL_MIN_GAIN |-> 0, AL_MAX_GAIN |-> 1,
     AL_LOOPING |-> ALC_FALSE, AL_PITCH |-> 1, AL_SOURCE_RELATIVE |-> ALC_FALSE,
     AL_POSITION |-> ZeroVec, AL_DIRECTION |-> ZeroVec,
     AL_MAX_DISTANCE |-> F32_INF, AL_REFERENCE_DISTANCE |-> 1,
     AL_ROLLOFF_FACTOR |-> 1]

IsSource(h) == h \in Handles /\ alSources[h] # NoSource

FreeHandles == {h \in Handles : alSources[h] = NoSource}

\* What a backend call on a valid name may answer: TRUE (done) always, and
\* FALSE (refused, error raised) while the backend has faults left.
Outcomes == IF faults > 0 THEN BOOLEAN ELSE {TRUE}

\* The names alGenSources may write into source_id: the lowest free name, or
\* 0 (source_id left untouched) when it fails: no name is free, or a fault.
LowestFree == {h \in FreeHandles : \A g \in FreeHandles : h <= g}

GenOutcomes == IF FreeHandles = {} \/ faults > 0 THEN LowestFree \cup {0} ELSE LowestFree

\* What alSourcei(source_id, AL_BUFFER, buffer) may answer on a valid name.
BindOutcomes == IF faults > 0 THEN BOOLEAN ELSE {TRUE}

\* The backend's buffer name of a SoundData (sound_data.get_buffer()).
get_buffer(d) == 100 + d

\* alSourcePlay: any state -> Playing.
alSourcePlay(src) == [src EXCEPT !.AL_SOURCE_STATE = AL_PLAYING]

\* alSourcePause: Playing -> Paused, a legal no-op otherwise.
alSourcePause(src) ==
    IF src.AL_SOURCE_STATE = AL_PLAYING
    THEN [src EXCEPT !.AL_SOURCE_STATE = AL_PAUSED] ELSE src

\* alSourceStop: Playing or Paused -> Stopped, a legal no-op otherwise.
alSourceStop(src) ==
    IF src.AL_SOURCE_STATE \in {AL_PLAYING, AL_PAUSED}
    THEN [src EXCEPT !.AL_SOURCE_STATE = AL_STOPPED] ELSE src

\* Whether the backend takes value v for an f32 attribute.
LegalFloat(v) == v >= 0

\* ------------------------------------------------------------ helpers
check_al_context == ctxValid

\* A refused call uses up one of the backend's faults.
Spend(ok) == faults' = IF ok THEN faults ELSE faults - 1

Call(fn, h, param) == [fn |-> fn, src |-> h, param |-> param]

Done(op, s, arg, ret, diag, calls) ==
    last' = [op |-> op, self |-> s, arg |-> arg, ret |-> ret,
             diag |-> diag, calls |-> calls]

Live(s) == sounds[s] # NoSound

\* al::openal_has_error(): alGetError() answers the pending error, if any,
\* and clears it; Some(message) exactly when one was pending.
openal_has_error(pending) == pending

\* The lowest free Sound slot: where the caller keeps the value it is given.
FreeSlots == {s \in SoundIds : ~Live(s)}
NewSlot == CHOOSE s \in FreeSlots : \A t \in FreeSlots : s <= t

\* The SoundData that Sound::new loads for the Sound in slot s: its own.
OwnedData(s) == MaxDatas + s

\* ------------------------------------------------------- construction
\* Sound::new_with_data, lines 98-120, for SoundData d, under the name op.
NewFrom(op, d) ==
    IF ~check_al_context
    THEN /\ Done(op, 0, d, "None", 1, <<>>)
         /\ UNCHANGED <<alSources, alError, sounds, faults>>
    ELSE \E gen \in GenOutcomes, bind \in BindOutcomes :
            LET bound == gen # 0 /\ bind
                pending == alError \/ gen = 0 \/ ~bound
                made == IF bound
                        THEN [DefaultSource EXCEPT !.AL_BUFFER = get_buffer(d)]
                        ELSE DefaultSource
                calls == <<Call("alGenSources", gen, "-"),
                           Call("alSourcei", gen, "AL_BUFFER"),
                           Call("alGetError", 0, "-")>>
            IN  /\ gen = 0 => bind
                /\ Spend(bind /\ (gen # 0 \/ FreeHandles = {}))
                /\ alSources' = IF gen = 0 THEN alSources
                                ELSE [alSources EXCEPT ![gen] = made]
                /\ alError' = FALSE
                /\ IF openal_has_error(pending)
                   THEN /\ Done(op, 0, d, "None", 1, calls)
                        /\ UNCHANGED sounds
                   ELSE /\ Done(op, NewSlot, d, "Some", 0, calls)
                        /\ sounds' = [sounds EXCEPT ![NewSlot] =
                                        [al_source |-> gen, sound_data |-> d]]

new_with_data(d) ==
    /\ ~panicked
    /\ FreeSlots # {}
    /\ NewFrom("new_with_data", d)
    /\ UNCHANGED <<ctxValid, panicked, nsets>>

\* Sound::new(path): loaded is what SoundData::new(path) answers.
new(loaded) ==
    /\ ~panicked
    /\ FreeSlots # {}
    /\ IF ~check_al_context
       THEN /\ Done("new", 0, loaded, "None", 1, <<>>)
            /\ UNCHANGED <<alSources, alError, sounds, faults>>
       ELSE IF ~loaded
            THEN /\ Done("new", 0, loaded, "None", 0, <<>>)
                 /\ UNCHANGED <<alSources, alError, sounds, faults>>
            ELSE NewFrom("new", OwnedData(NewSlot))
    /\ UNCHANGED <<ctxValid, panicked, nsets>>

get_datas(s) ==
    /\ ~panicked
    /\ Live(s)
    /\ Done("get_datas", s, 0, sounds[s].sound_data, 0, <<>>)
    /\ UNCHANGED <<ctxValid, faults, alSources, alError, sounds, panicked, nsets>>

\* ---------------------------------------------------------- transport
\* One backend call on the Sound's source: after is the source as the
\* backend leaves it when it takes the call; a refused call changes nothing
\* and raises the error flag.
Src(s) == alSources[sounds[s].al_source]

Forward(s, after, ok) ==
    LET h == sounds[s].al_source
        taken == ok /\ IsSource(h)
    IN  /\ alSources' = IF taken THEN [alSources EXCEPT ![h] = after] ELSE alSources
        /\ alError' = (alError \/ ~taken)

\* play as it would be with alSourcePause in the place of alSourcePlay.
play_pausing(s) ==
    /\ ~panicked
    /\ Live(s)
    /\ IF ~check_al_context
       THEN /\ Done("play", s, 0, "unit", 1, <<>>)
            /\ UNCHANGED <<alSources, alError, faults>>
       ELSE \E ok \in Outcomes :
            /\ Spend(ok)
            /\ Forward(s, alSourcePause(Src(s)), ok)
            /\ Done("play", s, 0, "unit", 0,
                    <<Call("alSourcePause", sounds[s].al_source, "-")>>)
    /\ UNCHANGED <<ctxValid, sounds, panicked, nsets>>

\* play as it would be if it toggled: a source that is Playing gets paused.
play_toggling(s) ==
    /\ ~panicked
    /\ Live(s)
    /\ IF ~check_al_context
       THEN /\ Done("play", s, 0, "unit", 1, <<>>)
            /\ UNCHANGED <<alSources, alError, faults>>
       ELSE \E ok \in Outcomes :
            /\ Spend(ok)
            /\ Forward(s, IF Src(s).AL_SOURCE_STATE = AL_PLAYING
                          THEN alSourcePause(Src(s)) ELSE alSourcePlay(Src(s)), ok)
            /\ Done("play", s, 0, "unit", 0,
                    <<Call("alSourcePlay", sounds[s].al_source, "-")>>)
    /\ UNCHANGED <<ctxValid, sounds, panicked, nsets>>

play(s) ==
    /\ ~panicked
    /\ Live(s)
    /\ IF ~check_al_context
       THEN /\ Done("play", s, 0, "unit", 1, <<>>)
            /\ UNCHANGED <<alSources, alError, faults>>
       ELSE \E ok \in Outcomes :
            LET h == sounds[s].al_source
                taken == ok /\ IsSource(h)
                pending == alError \/ ~taken
            IN  /\ Spend(ok)
                /\ alSources' = IF taken
                                THEN [alSources EXCEPT ![h] = alSourcePlay(@)]
                                ELSE alSources
                /\ alError' = FALSE
                /\ Done("play", s, 0, "unit",
                        IF openal_has_error(pending) THEN 1 ELSE 0,
                        <<Call("alSourcePlay", h, "-"), Call("alGetError", 0, "-")>>)
    /\ UNCHANGED <<ctxValid, sounds, panicked, nsets>>

\* pause as it would be if it paused a source in any state.
pause_always(s) ==
    /\ ~panicked
    /\ Live(s)
    /\ IF ~check_al_context
       THEN /\ Done("pause", s, 0, "unit", 1, <<>>)
            /\ UNCHANGED <<alSources, alError, faults>>
       ELSE \E ok \in Outcomes :
            /\ Spend(ok)
            /\ Forward(s, [Src(s) EXCEPT !.AL_SOURCE_STATE = AL_PAUSED], ok)
            /\ Done("pause", s, 0, "unit", 0,
                    <<Call("alSourcePause", sounds[s].al_source, "-")>>)
    /\ UNCHANGED <<ctxValid, sounds, panicked, nsets>>

pause(s) ==
    /\ ~panicked
    /\ Live(s)
    /\ IF ~check_al_context
       THEN /\ Done("pause", s, 0, "unit", 1, <<>>)
            /\ UNCHANGED <<alSources, alError, faults>>
       ELSE \E ok \in Outcomes :
            /\ Spend(ok)
            /\ Forward(s, alSourcePause(Src(s)), ok)
            /\ Done("pause", s, 0, "unit", 0,
                    <<Call("alSourcePause", sounds[s].al_source, "-")>>)
    /\ UNCHANGED <<ctxValid, sounds, panicked, nsets>>

\* stop as it would be if it stopped every source playing the same buffer.
stop_shared(s) ==
    /\ ~panicked
    /\ Live(s)
    /\ IF ~check_al_context
       THEN /\ Done("stop", s, 0, "unit", 1, <<>>)
            /\ UNCHANGED <<alSources, alError, faults>>
       ELSE /\ alSources' = [h \in Handles |->
                                IF IsSource(h) /\ alSources[h].AL_BUFFER = Src(s).AL_BUFFER
                                THEN alSourceStop(alSources[h]) ELSE alSources[h]]
            /\ Done("stop", s, 0, "unit", 0,
                    <<Call("alSourceStop", sounds[s].al_source, "-")>>)
            /\ UNCHANGED <<alError, faults>>
    /\ UNCHANGED <<ctxValid, sounds, panicked, nsets>>

stop(s) ==
    /\ ~panicked
    /\ Live(s)
    /\ IF ~check_al_context
       THEN /\ Done("stop", s, 0, "unit", 1, <<>>)
            /\ UNCHANGED <<alSources, alError, faults>>
       ELSE \E ok \in Outcomes :
            /\ Spend(ok)
            /\ Forward(s, alSourceStop(Src(s)), ok)
            /\ Done("stop", s, 0, "unit", 0,
                    <<Call("alSourceStop", sounds[s].al_source, "-")>>)
    /\ UNCHANGED <<ctxValid, sounds, panicked, nsets>>

\* ------------------------------------------------------------ queries
\* alGetSource*(h, param, &out): out keeps its initial value when the
\* backend refuses the query.
Query(s, param, initial, ok) ==
    LET h == sounds[s].al_source
    IN  IF ok /\ IsSource(h) THEN alSources[h][param] ELSE initial

QueryError(s, ok) == alError \/ ~(ok /\ IsSource(sounds[s].al_source))

\* get_state's match, lines 214-220.
MatchState(state) ==
    CASE state = AL_INITIAL -> "Initial"
      [] state = AL_PLAYING -> "Playing"
      [] state = AL_PAUSED -> "Paused"
      [] state = AL_STOPPED -> "Stopped"
      [] OTHER -> "panic"

\* What get_state answers when the backend answers ok to its query.
StateOf(s, ok) ==
    IF ~check_al_context THEN "Initial"
    ELSE MatchState(Query(s, "AL_SOURCE_STATE", 0, ok))

get_state(s) ==
    /\ ~panicked
    /\ Live(s)
    /\ IF ~check_al_context
       THEN /\ Done("get_state", s, 0, StateOf(s, TRUE), 1, <<>>)
            /\ UNCHANGED <<alError, panicked, faults>>
       ELSE \E ok \in Outcomes :
            /\ Spend(ok)
            /\ alError' = QueryError(s, ok)
            /\ panicked' = (StateOf(s, ok) = "panic")
            /\ Done("get_state", s, 0, StateOf(s, ok), 0,
                    <<Call("alGetSourcei", sounds[s].al_source, "AL_SOURCE_STATE")>>)
    /\ UNCHANGED <<ctxValid, alSources, sounds, nsets>>

\* is_playing's match on get_state(), lines 191-194.
IsPlayingOf(state) ==
    CASE state = "Playing" -> TRUE
      [] state = "panic" -> "panic"
      [] OTHER -> FALSE

is_playing(s) ==
    /\ ~panicked
    /\ Live(s)
    /\ IF ~check_al_context
       THEN /\ Done("is_playing", s, 0, IsPlayingOf(StateOf(s, TRUE)), 1, <<>>)
            /\ UNCHANGED <<alError, panicked, faults>>
       ELSE \E ok \in Outcomes :
            /\ Spend(ok)
            /\ alError' = QueryError(s, ok)
            /\ panicked' = (StateOf(s, ok) = "panic")
            /\ Done("is_playing", s, 0, IsPlayingOf(StateOf(s, ok)), 0,
                    <<Call("alGetSourcei", sounds[s].al_source, "AL_SOURCE_STATE")>>)
    /\ UNCHANGED <<ctxValid, alSources, sounds, nsets>>

\* ------------------------------------------------------ f32 attributes
\* A setter of an f32 attribute: context check, then alSourcef, no error check.
SetF(op, s, param, v) ==
    /\ ~panicked
    /\ Live(s)
    /\ nsets < MaxSets
    /\ nsets' = nsets + 1
    /\ IF ~check_al_context
       THEN /\ Done(op, s, v, "unit", 1, <<>>)
            /\ UNCHANGED <<alSources, alError, faults>>
       ELSE \E ok \in Outcomes :
            /\ Spend(ok)
            /\ Forward(s, [Src(s) EXCEPT ![param] = v], ok /\ LegalFloat(v))
            /\ Done(op, s, v, "unit", 0,
                    <<Call("alSourcef", sounds[s].al_source, param)>>)
    /\ UNCHANGED <<ctxValid, sounds, panicked>>

\* A getter of an f32 attribute: context check (fallback on failure), then
\* alGetSourcef into a local that starts at 0.
GetF(op, s, param, fallback) ==
    /\ ~panicked
    /\ Live(s)
    /\ IF ~check_al_context
       THEN /\ Done(op, s, 0, fallback, 1, <<>>)
            /\ UNCHANGED <<alError, faults>>
       ELSE \E ok \in Outcomes :
            /\ Spend(ok)
            /\ alError' = QueryError(s, ok)
            /\ Done(op, s, 0, Query(s, param, 0, ok), 0,
                    <<Call("alGetSourcef", sounds[s].al_source, param)>>)
    /\ UNCHANGED <<ctxValid, alSources, sounds, panicked, nsets>>

\* set_volume as it would be without its context check.
set_volume_unchecked(s, volume) ==
    /\ ~panicked
    /\ Live(s)
    /\ nsets < MaxSets
    /\ nsets' = nsets + 1
    /\ \E ok \in Outcomes :
        /\ Spend(ok)
        /\ Forward(s, [Src(s) EXCEPT !.AL_GAIN = volume], ok /\ LegalFloat(volume))
        /\ Done("set_volume", s, volume, "unit", 0,
                <<Call("alSourcef", sounds[s].al_source, "AL_GAIN")>>)
    /\ UNCHANGED <<ctxValid, sounds, panicked>>

\* set_pitch as it would be if it named AL_GAIN.
set_pitch_gain(s, pitch) == SetF("set_pitch", s, "AL_GAIN", pitch)

\* get_attenuation as it would be with the fallback of the other f32 getters.
get_attenuation_zero(s) == GetF("get_attenuation", s, "AL_ROLLOFF_FACTOR", 0)

set_volume(s, volume) == SetF("set_volume", s, "AL_GAIN", volume)
get_volume(s) == GetF("get_volume", s, "AL_GAIN", 0)
set_min_volume(s, min_volume) == SetF("set_min_volume", s, "AL_MIN_GAIN", min_volume)
get_min_volume(s) == GetF("get_min_volume", s, "AL_MIN_GAIN", 0)
set_max_volume(s, max_volume) == SetF("set_max_volume", s, "AL_MAX_GAIN", max_volume)
get_max_volume(s) == GetF("get_max_volume", s, "AL_MAX_GAIN", 0)
set_pitch(s, pitch) == SetF("set_pitch", s, "AL_PITCH", pitch)
get_pitch(s) == GetF("get_pitch", s, "AL_PITCH", 0)
set_max_distance(s, max_distance) ==
    SetF("set_max_distance", s, "AL_MAX_DISTANCE", max_distance)
get_max_distance(s) == GetF("get_max_distance", s, "AL_MAX_DISTANCE", 0)
set_reference_distance(s, ref_distance) ==
    SetF("set_reference_distance", s, "AL_REFERENCE_DISTANCE", ref_distance)
get_reference_distance(s) ==
    GetF("get_reference_distance", s, "AL_REFERENCE_DISTANCE", 1)
set_attenuation(s, attenuation) ==
    SetF("set_attenuation", s, "AL_ROLLOFF_FACTOR", attenuation)
get_attenuation(s) == GetF("get_attenuation", s, "AL_ROLLOFF_FACTOR", 1)

\* ----------------------------------------------------- bool attributes
\* match b { true => ALC_TRUE as i32, false => ALC_FALSE as i32 }
BoolToAl(b) == IF b THEN ALC_TRUE ELSE ALC_FALSE

\* match boolean as i8 { ALC_TRUE => true, ALC_FALSE => false, _ => unreachable!() }
MatchBool(boolean) ==
    CASE boolean = ALC_TRUE -> TRUE
      [] boolean = ALC_FALSE -> FALSE
      [] OTHER -> "panic"

\* Whether that match reaches its unreachable!() arm.
BoolUnreachable(boolean) == boolean \notin {ALC_TRUE, ALC_FALSE}

SetB(op, s, param, b) ==
    /\ ~panicked
    /\ Live(s)
    /\ nsets < MaxSets
    /\ nsets' = nsets + 1
    /\ IF ~check_al_context
       THEN /\ Done(op, s, b, "unit", 1, <<>>)
            /\ UNCHANGED <<alSources, alError, faults>>
       ELSE \E ok \in Outcomes :
            /\ Spend(ok)
            /\ Forward(s, [Src(s) EXCEPT ![param] = BoolToAl(b)], ok)
            /\ Done(op, s, b, "unit", 0,
                    <<Call("alSourcei", sounds[s].al_source, param)>>)
    /\ UNCHANGED <<ctxValid, sounds, panicked>>

GetB(op, s, param) ==
    /\ ~panicked
    /\ Live(s)
    /\ IF ~check_al_context
       THEN /\ Done(op, s, 0, FALSE, 1, <<>>)
            /\ UNCHANGED <<alError, panicked, faults>>
       ELSE \E ok \in Outcomes :
            LET ret == MatchBool(Query(s, param, 0, ok))
            IN  /\ Spend(ok)
                /\ alError' = QueryError(s, ok)
                /\ panicked' = BoolUnreachable(Query(s, param, 0, ok))
                /\ Done(op, s, 0, ret, 0,
                        <<Call("alGetSourcei", sounds[s].al_source, param)>>)
    /\ UNCHANGED <<ctxValid, alSources, sounds, nsets>>

set_looping(s, looping) == SetB("set_looping", s, "AL_LOOPING", looping)
is_looping(s) == GetB("is_looping", s, "AL_LOOPING")
set_relative(s, relative) == SetB("set_relative", s, "AL_SOURCE_RELATIVE", relative)
is_relative(s) == GetB("is_relative", s, "AL_SOURCE_RELATIVE")

\* --------------------------------------------------- vector attributes
SetV(op, s, param, v) ==
    /\ ~panicked
    /\ Live(s)
    /\ nsets < MaxSets
    /\ nsets' = nsets + 1
    /\ IF ~check_al_context
       THEN /\ Done(op, s, v, "unit", 1, <<>>)
            /\ UNCHANGED <<alSources, alError, faults>>
       ELSE \E ok \in Outcomes :
            /\ Spend(ok)
            /\ Forward(s, [Src(s) EXCEPT ![param] = v], ok)
            /\ Done(op, s, v, "unit", 0,
                    <<Call("alSourcefv", sounds[s].al_source, param)>>)
    /\ UNCHANGED <<ctxValid, sounds, panicked>>

GetV(op, s, param) ==
    /\ ~panicked
    /\ Live(s)
    /\ IF ~check_al_context
       THEN /\ Done(op, s, 0, ZeroVec, 1, <<>>)
            /\ UNCHANGED <<alError, faults>>
       ELSE \E ok \in Outcomes :
            /\ Spend(ok)
            /\ alError' = QueryError(s, ok)
            /\ Done(op, s, 0, Query(s, param, ZeroVec, ok), 0,
                    <<Call("alGetSourcefv", sounds[s].al_source, param)>>)
    /\ UNCHANGED <<ctxValid, alSources, sounds, panicked, nsets>>

set_position(s, position) == SetV("set_position", s, "AL_POSITION", position)
get_position(s) == GetV("get_position", s, "AL_POSITION")
set_direction(s, direction) == SetV("set_direction", s, "AL_DIRECTION", direction)
get_direction(s) == GetV("get_direction", s, "AL_DIRECTION")

\* ------------------------------------------------------------ teardown
\* Drop for Sound: alDeleteSources on the handle, no context check.  It also
\* runs for every live Sound while a panicking task unwinds.
\* drop as it would be with the context check of the other methods.
drop_checked(s) ==
    /\ Live(s)
    /\ IF ~check_al_context
       THEN /\ Done("drop", s, 0, "unit", 1, <<>>)
            /\ UNCHANGED <<alSources, alError, faults>>
       ELSE \E ok \in Outcomes :
            /\ Spend(ok)
            /\ Forward(s, NoSource, ok)
            /\ Done("drop", s, 0, "unit", 0,
                    <<Call("alDeleteSources", sounds[s].al_source, "-")>>)
    /\ sounds' = [sounds EXCEPT ![s] = NoSound]
    /\ UNCHANGED <<ctxValid, panicked, nsets>>

drop(s) ==
    /\ Live(s)
    /\ \E ok \in Outcomes :
        LET h == sounds[s].al_source
            taken == ok /\ IsSource(h)
        IN  /\ Spend(ok)
            /\ alSources' = IF taken THEN [alSources EXCEPT ![h] = NoSource]
                            ELSE alSources
            /\ alError' = (alError \/ ~taken)
            /\ Done("drop", s, 0, "unit", 0, <<Call("alDeleteSources", h, "-")>>)
    /\ sounds' = [sounds EXCEPT ![s] = NoSound]
    /\ UNCHANGED <<ctxValid, panicked, nsets>>

\* -------------------------------------------------------- environment
Env(op, h) == Done(op, 0, h, "unit", 0, <<>>)

\* The context oracle starts failing (context lost or never initialised).
ContextLost ==
    /\ ctxValid
    /\ ctxValid' = FALSE
    /\ Env("ContextLost", 0)
    /\ UNCHANGED <<faults, alSources, alError, sounds, panicked, nsets>>

ContextRestored ==
    /\ ~ctxValid
    /\ ctxValid' = TRUE
    /\ Env("ContextRestored", 0)
    /\ UNCHANGED <<faults, alSources, alError, sounds, panicked, nsets>>

\* The backend plays a non-looping source to the end of its buffer.
BufferExhausted(h) ==
    /\ IsSource(h)
    /\ alSources[h].AL_SOURCE_STATE = AL_PLAYING
    /\ alSources[h].AL_LOOPING = ALC_FALSE
    /\ alSources' = [alSources EXCEPT ![h].AL_SOURCE_STATE = AL_STOPPED]
    /\ Env("BufferExhausted", h)
    /\ UNCHANGED <<ctxValid, faults, alError, sounds, panicked, nsets>>

\* ------------------------------------------------------ specification
InitCommon ==
    /\ ctxValid \in BOOLEAN
    /\ alSources = [h \in Handles |-> NoSource]
    /\ alError = FALSE
    /\ sounds = [s \in SoundIds |-> NoSound]
    /\ panicked = FALSE
    /\ nsets = 0
    /\ last = [op |-> "init", self |-> 0, arg |-> 0, ret |-> "unit",
               diag |-> 0, calls |-> <<>>]

Init == InitCommon /\ faults = 0

InitFault == InitCommon /\ faults = MaxFaults

Next ==
    \/ \E d \in SharedDatas : new_with_data(d)
    \/ \E loaded \in BOOLEAN : new(loaded)
    \/ \E s \in SoundIds : get_datas(s)
    \/ \E s \in SoundIds : play(s)
    \/ \E s \in SoundIds : pause(s)
    \/ \E s \in SoundIds : stop(s)
    \/ \E s \in SoundIds : is_playing(s)
    \/ \E s \in SoundIds : get_state(s)
    \/ \E s \in SoundIds, v \in FloatArgs : set_volume(s, v)
    \/ \E s \in SoundIds : get_volume(s)
    \/ \E s \in SoundIds, v \in FloatArgs : set_min_volume(s, v)
    \/ \E s \in SoundIds : get_min_volume(s)
    \/ \E s \in SoundIds, v \in FloatArgs : set_max_volume(s, v)
    \/ \E s \in SoundIds : get_max_volume(s)
    \/ \E s \in SoundIds, b \in BOOLEAN : set_looping(s, b)
    \/ \E s \in SoundIds : is_looping(s)
    \/ \E s \in SoundIds, v \in FloatArgs : set_pitch(s, v)
    \/ \E s \in SoundIds : get_pitch(s)
    \/ \E s \in SoundIds, b \in BOOLEAN : set_relative(s, b)
    \/ \E s \in SoundIds : is_relative(s)
    \/ \E s \in SoundIds, v \in VecArgs : set_position(s, v)
    \/ \E s \in SoundIds : get_position(s)
    \/ \E s \in SoundIds, v \in VecArgs : set_direction(s, v)
    \/ \E s \in SoundIds : get_direction(s)
    \/ \E s \in SoundIds, v \in FloatArgs : set_max_distance(s, v)
    \/ \E s \in SoundIds : get_max_distance(s)
    \/ \E s \in SoundIds, v \in FloatArgs : set_reference_distance(s, v)
    \/ \E s \in SoundIds : get_reference_distance(s)
    \/ \E s \in SoundIds, v \in FloatArgs : set_attenuation(s, v)
    \/ \E s \in SoundIds : get_attenuation(s)
    \/ \E s \in SoundIds : drop(s)
    \/ ContextLost
    \/ ContextRestored
    \/ \E h \in Handles : BufferExhausted(h)

Spec == Init /\ [][Next]_vars

SpecFault == InitFault /\ [][Next]_vars

\* ------------------------------------------------- names used by claims
Constructors == {"new", "new_with_data"}
Transport == {"play", "pause", "stop"}
FloatSetters == {"set_volume", "set_min_volume", "set_max_volume", "set_pitch",
                 "set_max_distance", "set_reference_distance", "set_attenuation"}
Setters == FloatSetters \cup {"set_looping", "set_relative", "set_position",
                              "set_direction"}
\* each attribute: its setter, its getter and the backend slot they name
Attributes ==
    {<<"set_volume", "get_volume", "AL_GAIN">>,
     <<"set_min_volume", "get_min_volume", "AL_MIN_GAIN">>,
     <<"set_max_volume", "get_max_volume", "AL_MAX_GAIN">>,
     <<"set_looping", "is_looping", "AL_LOOPING">>,
     <<"set_pitch", "get_pitch", "AL_PITCH">>,
     <<"set_relative", "is_relative", "AL_SOURCE_RELATIVE">>,
     <<"set_position", "get_position", "AL_POSITION">>,
     <<"set_direction", "get_direction", "AL_DIRECTION">>,
     <<"set_max_distance", "get_max_distance", "AL_MAX_DISTANCE">>,
     <<"set_reference_distance", "get_reference_distance", "AL_REFERENCE_DISTANCE">>,
     <<"set_attenuation", "get_attenuation", "AL_ROLLOFF_FACTOR">>}

\* ------------------------------------------------------------------ C1
\* C1 (as claimed): no operation of a Sound ever panics, in any context
\* state and for any backend outcome.  The backend refusing get_state's
\* query leaves `state` at 0, which no arm but unreachable!() matches.
C1_NeverPanics == ~panicked

\* ------------------------------------------------------------------ C2
\* C2 (as claimed): with an invalid context every f32 getter answers 0,
\* get_reference_distance and get_attenuation included.
C2_AllFloatGettersFallBackToZero ==
    (~ctxValid /\ last.op \in {"get_volume", "get_min_volume", "get_max_volume",
                               "get_pitch", "get_max_distance",
                               "get_reference_distance", "get_attenuation"})
        => last.ret = 0

\* C2 (amended): with an invalid context every getter answers its fallback
\* whatever the backend stores: false for is_playing, is_looping and
\* is_relative; 0 for get_volume, get_min_volume, get_max_volume, get_pitch
\* and get_max_distance; 1 for get_reference_distance and get_attenuation;
\* the zero vector for get_position and get_direction; Initial for get_state.
C2_FallbackOnInvalidContext ==
    ~ctxValid =>
        /\ last.op \in {"is_playing", "is_looping", "is_relative"} => last.ret = FALSE
        /\ last.op \in {"get_volume", "get_min_volume", "get_max_volume",
                        "get_pitch", "get_max_distance"} => last.ret = 0
        /\ last.op \in {"get_reference_distance", "get_attenuation"} => last.ret = 1
        /\ last.op \in {"get_position", "get_direction"} => last.ret = ZeroVec
        /\ last.op = "get_state" => last.ret = "Initial"

\* A getter has answered under an invalid context while the backend stores
\* another value than the fallback.
C2_Witness ==
    /\ ~ctxValid
    /\ last.op = "get_reference_distance"
    /\ Src(last.self).AL_REFERENCE_DISTANCE = 2
    /\ last.ret = 1

\* ------------------------------------------------------------------ C3
\* C3: with an invalid context, play, pause, stop and every setter make no
\* backend call and leave the backend's sources (playback state, attributes,
\* buffer binding), its error flag and every Sound's handle unchanged.
C3_NoOpOnInvalidContext ==
    [][(~ctxValid /\ last'.op \in Transport \cup Setters)
        => /\ last'.calls = <<>>
           /\ alSources' = alSources
           /\ alError' = alError
           /\ sounds' = sounds]_vars

\* A setter has run under an invalid context on a Sound that is playing.
C3_Witness ==
    /\ ~ctxValid
    /\ last.op = "set_volume"
    /\ last.arg = 2
    /\ Src(last.self).AL_SOURCE_STATE = AL_PLAYING
    /\ Src(last.self).AL_GAIN = 1

\* ------------------------------------------------------------------ C4
\* C4 (as claimed): every operation reports the error its own backend call
\* raised, so no backend error is ever left pending after an operation.
C4_NoErrorLeftPending == ~alError

\* ------------------------------------------------------------------ C5
\* C5 (as claimed): a construction under a valid context whose own backend
\* calls succeed (a source was generated and the buffer bound to it)
\* returns Some(Sound), whatever operations came before.
C5_OwnCallsSucceeded ==
    /\ last.calls # <<>>
    /\ last.calls[1].src # 0
    /\ alSources[last.calls[1].src].AL_BUFFER = get_buffer(last.arg)

C5_SomeWhenOwnCallsSucceed ==
    (last.op \in Constructors /\ C5_OwnCallsSucceeded) => last.ret = "Some"

\* ------------------------------------------------------------------ C6
\* C6: dropping a Sound deletes its source exactly once and unconditionally:
\* drop makes the single call alDeleteSources on the Sound's handle, with
\* or without a valid context; the handle names a source before the call
\* (so none is deleted twice) and none after it; nothing but the drop of
\* its owner deletes a source; and no two live Sounds hold the same handle.
C6_HandlesOwned ==
    \A s \in SoundIds : Live(s) =>
        /\ IsSource(sounds[s].al_source)
        /\ \A u \in SoundIds :
            (Live(u) /\ u # s) => sounds[u].al_source # sounds[s].al_source

C6_DropStep ==
    last'.op = "drop" =>
        LET s == last'.self
            h == sounds[s].al_source
        IN  /\ Live(s)
            /\ IsSource(h)
            /\ last'.calls = <<Call("alDeleteSources", h, "-")>>
            /\ alSources'[h] = NoSource
            /\ sounds'[s] = NoSound
            /\ \A g \in Handles \ {h} : alSources'[g] = alSources[g]

C6_OnlyDropDeletes ==
    \A h \in Handles :
        (IsSource(h) /\ alSources'[h] = NoSource)
            => (last'.op = "drop" /\ sounds[last'.self].al_source = h)

C6_DropDeletesOnce ==
    []C6_HandlesOwned /\ [][C6_DropStep /\ C6_OnlyDropDeletes]_vars

\* A Sound that was never played has been dropped under an invalid context,
\* and its source is gone.
C6_Witness ==
    /\ last.op = "drop"
    /\ ~ctxValid
    /\ ~Live(last.self)
    /\ ~IsSource(last.calls[1].src)

\* ------------------------------------------------------------------ C7
\* C7: with a valid context, is_playing directly after play on the same
\* Sound answers true, directly after stop it answers false, and is_playing
\* answers true exactly when get_state would answer Playing.
C7_IsPlayingFollowsTransport ==
    [][(ctxValid /\ last'.op = "is_playing")
        => /\ (last.op = "play" /\ last.self = last'.self) => last'.ret = TRUE
           /\ (last.op = "stop" /\ last.self = last'.self) => last'.ret = FALSE
           /\ last'.ret = (StateOf(last'.self, TRUE) = "Playing")]_vars

\* is_playing has answered true under a valid context.
C7_Witness ==
    /\ ctxValid
    /\ last.op = "is_playing"
    /\ last.ret = TRUE
    /\ Src(last.self).AL_SOURCE_STATE = AL_PLAYING

\* ------------------------------------------------------------------ C8
\* C8: a Sound built by new_with_data(d) holds d and get_datas answers it for
\* as long as the Sound lives, so two Sounds built from one SoundData answer
\* the same; and an operation on one Sound leaves every other Sound's handle,
\* SoundData and source (playback state and attributes) unchanged.
SoundOps ==
    Constructors \cup Transport \cup Setters
        \cup {"drop", "get_datas", "is_playing", "get_state"}
        \cup {a[2] : a \in Attributes}

C8_SharedDataIndependentSounds ==
    [][/\ (last'.op = "new_with_data" /\ last'.ret = "Some")
            => sounds'[last'.self].sound_data = last'.arg
       /\ last'.op = "get_datas" => last'.ret = sounds[last'.self].sound_data
       /\ \A s \in SoundIds :
            (Live(s) /\ sounds'[s] # NoSound) => sounds'[s] = sounds[s]
       /\ \A u \in SoundIds :
            (Live(u) /\ last'.op \in SoundOps /\ last'.self # u)
                => /\ sounds'[u] = sounds[u]
                   /\ alSources'[sounds[u].al_source] = alSources[sounds[u].al_source]
      ]_vars

\* Two live Sounds built from the same SoundData are both playing.
C8_Witness ==
    /\ \A s \in {1, 2} : Live(s) /\ sounds[s].sound_data = 1
                                 /\ Src(s).AL_SOURCE_STATE = AL_PLAYING
    /\ sounds[1].al_source # sounds[2].al_source
    /\ last.op = "play"

C9_Decoded(a, stored) ==
    IF a[3] \in {"AL_LOOPING", "AL_SOURCE_RELATIVE"} THEN stored = ALC_TRUE ELSE stored

C10_Allowed(from, to, looping) ==
    \/ <<from, to>> \in {<<AL_INITIAL, AL_PLAYING>>, <<AL_PLAYING, AL_PAUSED>>,
                         <<AL_PAUSED, AL_PLAYING>>, <<AL_PLAYING, AL_STOPPED>>,
                         <<AL_PAUSED, AL_STOPPED>>, <<AL_STOPPED, AL_PLAYING>>}
    \/ (<<from, to>> = <<AL_STOPPED, AL_INITIAL>> /\ looping = ALC_TRUE)

C10_PlaybackStateMachine ==
    [][/\ (last'.op \in Constructors /\ last'.ret = "Some")
            => alSources'[sounds'[last'.self].al_source].AL_SOURCE_STATE = AL_INITIAL
       /\ (ctxValid /\ last.op \in Constructors /\ last.ret = "Some"
              /\ last'.op = "get_state" /\ last'.self = last.self)
            => last'.ret = "Initial"
       /\ \A s \in SoundIds :
            LET h == sounds[s].al_source
                from == alSources[h].AL_SOURCE_STATE
                to == alSources'[h].AL_SOURCE_STATE
            IN  (Live(s) /\ sounds'[s] = sounds[s] /\ to # from)
                    => /\ \/ (last'.op \in Transport /\ last'.self = s)
                          \/ (last'.op = "BufferExhausted" /\ last'.arg = h)
                       /\ C10_Allowed(from, to, alSources[h].AL_LOOPING)
      ]_vars

\* pause has run, with a valid context, on a Sound that is Stopped and has
\* left it Stopped.
C10_Witness ==
    /\ ctxValid
    /\ last.op = "pause"
    /\ last.calls # <<>>
    /\ Src(last.self).AL_SOURCE_STATE = AL_STOPPED

\* ---------------------------------------------------------------- C11
\* C11: play and stop are idempotent on the observable state of a Sound.
\* With a valid context, when play has just run on a Sound and runs on it
\* again, the second call leaves every source (playback state and every
\* parameter), every Sound and the backend's error flag as the first call
\* left them; likewise for stop. The first call starts from any state.
C11_PlayStopIdempotent ==
    [][(/\ ctxValid
        /\ last.op \in {"play", "stop"}
        /\ last.calls # <<>>
        /\ last'.op = last.op
        /\ last'.self = last.self)
          => /\ alSources' = alSources
             /\ sounds' = sounds
             /\ alError' = alError]_vars

\* play has run, with a valid context, on a Sound whose gain was set to 2;
\* the Sound is Playing and play can run on it again.
C11_Witness ==
    /\ ctxValid
    /\ ~panicked
    /\ last.op = "play"
    /\ last.calls # <<>>
    /\ Live(last.self)
    /\ Src(last.self).AL_SOURCE_STATE = AL_PLAYING
    /\ Src(last.self).AL_GAIN = 2

\* ---------------------------------------------------------------- C12
\* C12: no backend source handle is ever leaked. In every reachable state
\* each handle that alGenSources produced and that has not been deleted is
\* owned by exactly one live Sound; in particular a handle generated by a
\* new_with_data that then returns None is not left allocated with no owner.
C12_NoSourceLeaked ==
    \A h \in Handles :
        IsSource(h) =>
            Cardinality({s \in SoundIds : Live(s) /\ sounds[s].al_source = h}) = 1

====
